---- MODULE Spec2Model ----
(***************************************************************************)
(* Model of .archive/diagnostics/final_erc1155_analysis.py: a script that  *)
(* binds a nested literal to erc1155_data and prints                       *)
(* json.dumps(erc1155_data, indent=2).                                     *)
(*                                                                         *)
(* Python values are tagged records.  A dict is the sequence of its        *)
(* (key, value) items in insertion order, a str is a TLA+ string, a float  *)
(* is the decimal mant / 10^scale that its shortest repr denotes.          *)
(* Text (the chunks of the encoder, the result of json.dumps, the          *)
(* contents of standard output) is a TLA+ string, built and read           *)
(* character by character.                                                 *)
(***************************************************************************)
EXTENDS Integers, Sequences, FiniteSets, TLC

VARIABLES
    pc,            \* the statement the current process is about to run
    invocation,    \* index of the current run of the script
    hashseed,      \* hashseed[k]: str-hash randomisation seed of run k
    json_imported, \* whether line 2 has bound the name json
    erc1155_data,  \* the module-level name erc1155_data
    pending,       \* chunks the encoder's generator has yet to yield
    chunks,        \* chunks json.dumps has collected so far
    text,          \* the str returned by json.dumps
    stdout,        \* stdout[k]: what run k has written to standard output
    nwrites,       \* print calls the current process has made
    exit_status    \* exit status of the current process, Running before exit

vars == <<pc, invocation, hashseed, json_imported, erc1155_data, pending,
          chunks, text, stdout, nwrites, exit_status>>

\* Bounds of the model.
MaxInvocations == 2
MaxHashSeed == 1

Min(S) == CHOOSE x \in S : \A y \in S : x <= y

\* ------------------------------------------------------------------------
\* Python values

PyStr(s) == [t |-> "str", s |-> s]
PyInt(n) == [t |-> "int", n |-> n]
PyFloat(m, sc) == [t |-> "float", mant |-> m, scale |-> sc]
PyDict(items) == [t |-> "dict", items |-> items]
PyList(items) == [t |-> "list", items |-> items]
Unbound == [t |-> "unbound"]
NoText == [t |-> "none"]
Running == <<>>
Exited(status) == <<status>>

\* ------------------------------------------------------------------------
\* The literal of lines 5-59

wallet_cluster ==
    PyDict(<< <<"eoa", PyStr("0xcce2b7c71f21e358b8e5e797e586cbc03160d58b")>>,
            <<"proxy", PyStr("0xd59d03eeb0fd5979c702ba20bcc25da2ae1d9723")>>,
            <<"type", PyStr("Safe (proxy wallet)")>> >>)

\* direction_breakdown with the digits of to_eoa transposed.
direction_breakdown_typo ==
    PyDict(<< <<"to_eoa", PyInt(108)>>,
            <<"from_eoa", PyInt(69)>> >>)

direction_breakdown ==
    PyDict(<< <<"to_eoa", PyInt(180)>>,
            <<"from_eoa", PyInt(69)>> >>)

\* time_range with the month of earliest off by one.
time_range_typo ==
    PyDict(<< <<"earliest", PyStr("2024-09-21 17:57:45")>>,
            <<"latest", PyStr("2025-10-30 20:58:09")>> >>)

time_range ==
    PyDict(<< <<"earliest", PyStr("2024-08-21 17:57:45")>>,
            <<"latest", PyStr("2025-10-30 20:58:09")>> >>)

\* monthly_breakdown with the digits of 2024-09 transposed.
monthly_breakdown_typo ==
    PyDict(<< <<"2024-08", PyInt(22)>>,
            <<"2024-09", PyInt(87)>>,
            <<"2024-10", PyInt(39)>>,
            <<"2024-11", PyInt(22)>>,
            <<"2024-12", PyInt(14)>>,
            <<"2025-01", PyInt(9)>>,
            <<"2025-02", PyInt(10)>>,
            <<"2025-03", PyInt(6)>>,
            <<"2025-04", PyInt(3)>>,
            <<"2025-05", PyInt(1)>>,
            <<"2025-06", PyInt(0)>>,
            <<"2025-07", PyInt(0)>>,
            <<"2025-08", PyInt(0)>>,
            <<"2025-09", PyInt(38)>>,
            <<"2025-10", PyInt(7)>> >>)

monthly_breakdown ==
    PyDict(<< <<"2024-08", PyInt(22)>>,
            <<"2024-09", PyInt(78)>>,
            <<"2024-10", PyInt(39)>>,
            <<"2024-11", PyInt(22)>>,
            <<"2024-12", PyInt(14)>>,
            <<"2025-01", PyInt(9)>>,
            <<"2025-02", PyInt(10)>>,
            <<"2025-03", PyInt(6)>>,
            <<"2025-04", PyInt(3)>>,
            <<"2025-05", PyInt(1)>>,
            <<"2025-06", PyInt(0)>>,
            <<"2025-07", PyInt(0)>>,
            <<"2025-08", PyInt(0)>>,
            <<"2025-09", PyInt(38)>>,
            <<"2025-10", PyInt(7)>> >>)

erc1155_transfers ==
    PyDict(<< <<"total", PyInt(249)>>,
            <<"direction_breakdown", direction_breakdown>>,
            <<"time_range", time_range>>,
            <<"monthly_breakdown", monthly_breakdown>> >>)

canonical_trades ==
    PyDict(<< <<"count", PyStr("UNKNOWN")>>,
            <<"total_usd_value", PyStr("UNKNOWN")>> >>)

polymarket_ui_volume == PyFloat(138385159, 2)

pnl_v2_canonical_volume == PyFloat(22557234, 2)

\* sample_transfers with the second direction in another spelling.
sample_transfers_respelt ==
    PyList(<< PyDict(<< <<"timestamp", PyStr("2025-10-30 20:58:09")>>,
                    <<"direction", PyStr("OUTBOUND")>>,
                    <<"tx_hash", PyStr("0xabffebff511763210395f59ba99ab3f186ca1ca973c333b4cf0d6803328217cb")>>,
                    <<"value_hex", PyStr("0x12560fb0")>> >>),
             PyDict(<< <<"timestamp", PyStr("2025-10-15 00:38:45")>>,
                    <<"direction", PyStr("Inbound")>>,
                    <<"tx_hash", PyStr("0xd3ea4e87ebd74eb8c38df371e83fc9c90d3326c942d3831e88232ca971b47f65")>>,
                    <<"value_hex", PyStr("0x3b9aca00")>> >>) >>)

sample_transfers ==
    PyList(<< PyDict(<< <<"timestamp", PyStr("2025-10-30 20:58:09")>>,
                    <<"direction", PyStr("OUTBOUND")>>,
                    <<"tx_hash", PyStr("0xabffebff511763210395f59ba99ab3f186ca1ca973c333b4cf0d6803328217cb")>>,
                    <<"value_hex", PyStr("0x12560fb0")>> >>),
             PyDict(<< <<"timestamp", PyStr("2025-10-15 00:38:45")>>,
                    <<"direction", PyStr("INBOUND")>>,
                    <<"tx_hash", PyStr("0xd3ea4e87ebd74eb8c38df371e83fc9c90d3326c942d3831e88232ca971b47f65")>>,
                    <<"value_hex", PyStr("0x3b9aca00")>> >>) >>)

erc1155_data_literal ==
    PyDict(<< <<"wallet_cluster", wallet_cluster>>,
            <<"erc1155_transfers", erc1155_transfers>>,
            <<"canonical_trades", canonical_trades>>,
            <<"polymarket_ui_volume", polymarket_ui_volume>>,
            <<"pnl_v2_canonical_volume", pnl_v2_canonical_volume>>,
            <<"sample_transfers", sample_transfers>> >>)

\* ------------------------------------------------------------------------
\* json.dumps(obj, indent=2): the pure-Python encoder that json selects when
\* indent is not None, which yields the text chunk by chunk.

indent == 2

Char(s, i) == IF i \in 1..Len(s) THEN SubSeq(s, i, i) ELSE ""

RECURSIVE Spaces(_)
Spaces(n) == IF n <= 0 THEN "" ELSE " " \o Spaces(n - 1)

\* '\n' + _indent * _current_indent_level
newline_indent(level) == "\n" \o Spaces(indent * level)

\* The key separator of the compact form, separators=(",", ":").
key_separator_compact == ":"

item_separator == ","
key_separator == ": "

Digit(d) == SubSeq("0123456789", d + 1, d + 1)

\* int.__repr__
RECURSIVE intstr(_)
intstr(n) ==
    IF n < 0 THEN "-" \o intstr(0 - n)
    ELSE IF n < 10 THEN Digit(n)
    ELSE intstr(n \div 10) \o Digit(n % 10)

RECURSIVE Pow10(_)
Pow10(k) == IF k = 0 THEN 1 ELSE 10 * Pow10(k - 1)

RECURSIVE ZeroPad(_, _)
ZeroPad(s, width) == IF Len(s) >= width THEN s ELSE ZeroPad("0" \o s, width)

RECURSIVE StripZeros(_)
StripZeros(s) ==
    IF Len(s) > 1 /\ Char(s, Len(s)) = "0"
    THEN StripZeros(SubSeq(s, 1, Len(s) - 1))
    ELSE s

\* The float cut to its integer part, as int(f) would print.
floatstr_truncating(f) ==
    LET m == IF f.mant < 0 THEN 0 - f.mant ELSE f.mant
    IN (IF f.mant < 0 THEN "-" ELSE "") \o intstr(m \div Pow10(f.scale))

\* float.__repr__ of a finite float of moderate magnitude: the integer part,
\* a point, and the fraction without trailing zeros (at least one digit).
floatstr(f) ==
    LET m == IF f.mant < 0 THEN 0 - f.mant ELSE f.mant
        p == Pow10(f.scale)
        frac == IF f.scale = 0 THEN "0"
                ELSE StripZeros(ZeroPad(intstr(m % p), f.scale))
    IN (IF f.mant < 0 THEN "-" ELSE "") \o intstr(m \div p) \o "." \o frac

\* ESCAPE_DCT of json.encoder for the characters a TLA+ string can hold.
EscapeChar(c) ==
    CASE c = "\"" -> "\\\""
      [] c = "\\" -> "\\\\"
      [] c = "\n" -> "\\n"
      [] c = "\r" -> "\\r"
      [] c = "\t" -> "\\t"
      [] c = "\f" -> "\\f"
      [] OTHER -> c

\* The replacement of every character of s[lo..hi], concatenated.
RECURSIVE EscapeRange(_, _, _)
EscapeRange(s, lo, hi) ==
    IF lo > hi THEN ""
    ELSE IF lo = hi THEN EscapeChar(Char(s, lo))
    ELSE LET mid == (lo + hi) \div 2
         IN EscapeRange(s, lo, mid) \o EscapeRange(s, mid + 1, hi)

\* py_encode_basestring_ascii: '"' + escaped + '"'
encoder(s) == "\"" \o EscapeRange(s, 1, Len(s)) \o "\""

IsScalar(v) == v.t \in {"str", "int", "float"}

EncodeScalar(v) ==
    CASE v.t = "str" -> encoder(v.s)
      [] v.t = "int" -> intstr(v.n)
      [] v.t = "float" -> floatstr(v)

\* Iteration in an order that the hash seed decides, as that of a set of
\* str is: the items rotated by the seed.
DictItemsHashOrder(dct, seed) ==
    LET n == Len(dct.items)
    IN [k \in 1..n |-> dct.items[((k - 1 + seed) % n) + 1]]

\* The characters of the literal's keys, in code order.
KeyAlphabet == "-0123456789_abcdefghijklmnopqrstuvwxyz"

Ord(c) == Min({k \in 1..Len(KeyAlphabet) : Char(KeyAlphabet, k) = c})

\* a < b for str
RECURSIVE StrLessFrom(_, _, _)
StrLessFrom(a, b, i) ==
    IF i > Len(a) THEN i <= Len(b)
    ELSE IF i > Len(b) THEN FALSE
    ELSE IF Char(a, i) = Char(b, i) THEN StrLessFrom(a, b, i + 1)
    ELSE Ord(Char(a, i)) < Ord(Char(b, i))

\* sorted(dct.items()), what sort_keys=True iterates over.
DictItemsSorted(dct, seed) ==
    LET n == Len(dct.items)
        rank(j) == Cardinality({i \in 1..n :
                       StrLessFrom(dct.items[i][1], dct.items[j][1], 1)}) + 1
    IN [k \in 1..n |-> dct.items[Min({j \in 1..n : rank(j) = k})]]

\* dct.items(): iteration is in insertion order whatever the hash seed of
\* the process is.
DictItems(dct, seed) == dct.items

RECURSIVE _iterencode(_, _, _)
RECURSIVE _iterencode_list_from(_, _, _, _)
RECURSIVE _iterencode_dict_from(_, _, _, _)

\* The loop body of _iterencode_list for lst[k], lst[k+1], ...
_iterencode_list_from(lst, k, level, seed) ==
    IF k > Len(lst) THEN <<>>
    ELSE LET value == lst[k]
             buf == IF k = 1 THEN "[" \o newline_indent(level)
                    ELSE item_separator \o newline_indent(level)
         IN (IF IsScalar(value)
             THEN <<buf \o EncodeScalar(value)>>
             ELSE <<buf>> \o _iterencode(value, level, seed))
            \o _iterencode_list_from(lst, k + 1, level, seed)

_iterencode_list(lst, level, seed) ==
    IF Len(lst) = 0 THEN <<"[]">>
    ELSE _iterencode_list_from(lst, 1, level + 1, seed)
         \o <<newline_indent(level), "]">>

\* The loop body of _iterencode_dict for items[k], items[k+1], ...
_iterencode_dict_from(items, k, level, seed) ==
    IF k > Len(items) THEN <<>>
    ELSE LET key == items[k][1]
             value == items[k][2]
         IN (IF k = 1 THEN <<>>
             ELSE <<item_separator \o newline_indent(level)>>)
            \o <<encoder(key), key_separator>>
            \o (IF IsScalar(value)
                THEN <<EncodeScalar(value)>>
                ELSE _iterencode(value, level, seed))
            \o _iterencode_dict_from(items, k + 1, level, seed)

_iterencode_dict(dct, level, seed) ==
    IF Len(dct.items) = 0 THEN <<"{}">>
    ELSE <<"{", newline_indent(level + 1)>>
         \o _iterencode_dict_from(DictItems(dct, seed), 1, level + 1, seed)
         \o <<newline_indent(level), "}">>

_iterencode(o, level, seed) ==
    CASE IsScalar(o) -> <<EncodeScalar(o)>>
      [] o.t = "list" -> _iterencode_list(o.items, level, seed)
      [] o.t = "dict" -> _iterencode_dict(o, level, seed)

\* ''.join(chunks)
RECURSIVE JoinRange(_, _, _)
JoinRange(cs, lo, hi) ==
    IF lo > hi THEN ""
    ELSE IF lo = hi THEN cs[lo]
    ELSE LET mid == (lo + hi) \div 2
         IN JoinRange(cs, lo, mid) \o JoinRange(cs, mid + 1, hi)

Join(cs) == JoinRange(cs, 1, Len(cs))

\* ------------------------------------------------------------------------
\* Reading emitted text back: the JSON grammar, as json.loads reads it.
\* A parse result is [ok, v, i]: whether a value was read, the value, and
\* the index of the first character after it.

ParseError == [t |-> "error"]
Fail == [ok |-> FALSE, v |-> ParseError, i |-> 0]
Ok(v, i) == [ok |-> TRUE, v |-> v, i |-> i]

IsWs(c) == c \in {" ", "\n", "\t", "\r"}
IsDigit(c) == c \in {"0", "1", "2", "3", "4", "5", "6", "7", "8", "9"}

DigitValue(c) == Min({d \in 0..9 : Digit(d) = c})

RECURSIVE SkipWs(_, _)
SkipWs(s, i) == IF IsWs(Char(s, i)) THEN SkipWs(s, i + 1) ELSE i

\* The index after the run of digits that starts at i.
RECURSIVE SkipDigits(_, _)
SkipDigits(s, i) == IF IsDigit(Char(s, i)) THEN SkipDigits(s, i + 1) ELSE i

\* The number that the digits s[lo..hi] denote.
RECURSIVE Atoi(_, _, _)
Atoi(s, lo, hi) ==
    IF lo > hi THEN 0
    ELSE 10 * Atoi(s, lo, hi - 1) + DigitValue(Char(s, hi))

\* The number of backslashes that immediately precede position j.
RECURSIVE BackslashRun(_, _)
BackslashRun(s, j) ==
    IF Char(s, j - 1) = "\\" THEN 1 + BackslashRun(s, j - 1) ELSE 0

\* The first quote at or after lo that no backslash escapes, 0 if none.
RECURSIVE ClosingQuote(_, _)
ClosingQuote(s, lo) ==
    IF lo > Len(s) THEN 0
    ELSE LET w == {j \in lo..(lo + 15) :
                     Char(s, j) = "\"" /\ BackslashRun(s, j) % 2 = 0}
         IN IF w # {} THEN Min(w) ELSE ClosingQuote(s, lo + 16)

UnescapeChar(c) ==
    CASE c = "n" -> "\n"
      [] c = "r" -> "\r"
      [] c = "t" -> "\t"
      [] c = "f" -> "\f"
      [] OTHER -> c

\* Within a string body that starts at lo: position p opens an escape.
OpensEscape(s, lo, p) ==
    /\ Char(s, p) = "\\"
    /\ LET run == BackslashRun(s, p)
       IN (IF run > p - lo THEN p - lo ELSE run) % 2 = 0

\* What position p of the body contributes to the string.
Piece(s, lo, p) ==
    IF OpensEscape(s, lo, p) THEN UnescapeChar(Char(s, p + 1))
    ELSE IF p > lo /\ OpensEscape(s, lo, p - 1) THEN ""
    ELSE Char(s, p)

RECURSIVE UnescapeRange(_, _, _, _)
UnescapeRange(s, lo, a, b) ==
    IF a > b THEN ""
    ELSE IF a = b THEN Piece(s, lo, a)
    ELSE LET mid == (a + b) \div 2
         IN UnescapeRange(s, lo, a, mid) \o UnescapeRange(s, lo, mid + 1, b)

\* Every escape of the body s[lo..hi] is one the grammar knows (the \b and
\* \uXXXX escapes, which the encoder never emits for these strings, are
\* not read).
EscapesKnown(s, lo, hi) ==
    \A p \in lo..hi :
        OpensEscape(s, lo, p) =>
            Char(s, p + 1) \in {"\"", "\\", "/", "n", "r", "t", "f"}

\* A string whose opening quote is at i.
ParseString(s, i) ==
    LET close == ClosingQuote(s, i + 1)
    IN IF Char(s, i) # "\"" \/ close = 0 THEN Fail
       ELSE IF ~EscapesKnown(s, i + 1, close - 1) THEN Fail
       ELSE IF \E p \in (i + 1)..(close - 1) : Char(s, p) \in {"\n", "\r", "\t", "\f"}
       THEN Fail
       ELSE Ok(UnescapeRange(s, i + 1, i + 1, close - 1), close + 1)

\* The float that an integer part and a fraction denote, its fraction
\* without trailing zeros.
RECURSIVE MakeFloat(_, _)
MakeFloat(m, sc) ==
    IF sc > 1 /\ m % 10 = 0 THEN MakeFloat(m \div 10, sc - 1)
    ELSE PyFloat(m, sc)

\* A number that starts at i: an int, or a float when a fraction follows.
ParseNumber(s, i) ==
    LET neg == Char(s, i) = "-"
        a == IF neg THEN i + 1 ELSE i
        b == SkipDigits(s, a)
        sign == IF neg THEN -1 ELSE 1
    IN IF b = a THEN Fail
       ELSE IF b - a > 1 /\ Char(s, a) = "0" THEN Fail
       ELSE IF Char(s, b) = "."
       THEN LET c == SkipDigits(s, b + 1)
            IN IF c = b + 1 THEN Fail
               ELSE Ok(MakeFloat(sign * (Atoi(s, a, b - 1) * Pow10(c - b - 1)
                                         + Atoi(s, b + 1, c - 1)),
                                 c - b - 1), c)
       ELSE Ok(PyInt(sign * Atoi(s, a, b - 1)), b)

RECURSIVE ParseValue(_, _)
RECURSIVE ParseMembers(_, _, _)
RECURSIVE ParseElements(_, _, _)

\* The members of an object from the key at i on; acc holds those read.
ParseMembers(s, i, acc) ==
    LET k == ParseString(s, i)
        colon == IF k.ok THEN SkipWs(s, k.i) ELSE 0
        v == IF k.ok /\ Char(s, colon) = ":"
             THEN ParseValue(s, SkipWs(s, colon + 1)) ELSE Fail
        after == IF v.ok THEN SkipWs(s, v.i) ELSE 0
        items == IF v.ok THEN Append(acc, <<k.v, v.v>>) ELSE acc
    IN IF ~v.ok THEN Fail
       ELSE IF Char(s, after) = "," THEN ParseMembers(s, SkipWs(s, after + 1), items)
       ELSE IF Char(s, after) = "}" THEN Ok(PyDict(items), after + 1)
       ELSE Fail

\* The elements of an array from the value at i on; acc holds those read.
ParseElements(s, i, acc) ==
    LET v == ParseValue(s, i)
        after == IF v.ok THEN SkipWs(s, v.i) ELSE 0
        items == IF v.ok THEN Append(acc, v.v) ELSE acc
    IN IF ~v.ok THEN Fail
       ELSE IF Char(s, after) = "," THEN ParseElements(s, SkipWs(s, after + 1), items)
       ELSE IF Char(s, after) = "]" THEN Ok(PyList(items), after + 1)
       ELSE Fail

ParseValue(s, i) ==
    LET c == Char(s, i)
    IN CASE c = "{" ->
              LET j == SkipWs(s, i + 1)
              IN IF Char(s, j) = "}" THEN Ok(PyDict(<<>>), j + 1)
                 ELSE ParseMembers(s, j, <<>>)
         [] c = "[" ->
              LET j == SkipWs(s, i + 1)
              IN IF Char(s, j) = "]" THEN Ok(PyList(<<>>), j + 1)
                 ELSE ParseElements(s, j, <<>>)
         [] c = "\"" ->
              LET r == ParseString(s, i)
              IN IF r.ok THEN Ok(PyStr(r.v), r.i) ELSE Fail
         [] c = "-" \/ IsDigit(c) -> ParseNumber(s, i)
         [] OTHER -> Fail

\* json.loads(s): one value, white space around it, and nothing else.
loads(s) ==
    LET r == ParseValue(s, SkipWs(s, 1))
    IN IF r.ok /\ SkipWs(s, r.i) = Len(s) + 1 THEN r.v ELSE ParseError

\* ------------------------------------------------------------------------
\* The script, statement by statement

Init ==
    /\ pc = "import"
    /\ invocation = 1
    /\ hashseed \in {<<h>> : h \in 0..MaxHashSeed}
    /\ json_imported = FALSE
    /\ erc1155_data = Unbound
    /\ pending = <<>>
    /\ chunks = <<>>
    /\ text = NoText
    /\ stdout = <<"">>
    /\ nwrites = 0
    /\ exit_status = Running

\* line 2: import json
ImportJson ==
    /\ pc = "import"
    /\ json_imported' = TRUE
    /\ pc' = "assign"
    /\ UNCHANGED <<invocation, hashseed, erc1155_data, pending, chunks, text,
                   stdout, nwrites, exit_status>>

\* lines 5-59: erc1155_data = { ... }
Assign ==
    /\ pc = "assign"
    /\ erc1155_data' = erc1155_data_literal
    /\ pc' = "dumps"
    /\ UNCHANGED <<invocation, hashseed, json_imported, pending, chunks, text,
                   stdout, nwrites, exit_status>>

\* line 61, json.dumps is called: the encoder's generator is created; it is
\* represented by the chunks it has yet to yield.
DumpsCall ==
    /\ pc = "dumps"
    /\ json_imported
    /\ pending' = _iterencode(erc1155_data, 0, hashseed[invocation])
    /\ pc' = "encode"
    /\ UNCHANGED <<invocation, hashseed, json_imported, erc1155_data, chunks,
                   text, stdout, nwrites, exit_status>>

\* line 61, inside json.dumps: list(chunks) takes the next chunk
IterencodeStep ==
    /\ pc = "encode"
    /\ pending # <<>>
    /\ chunks' = Append(chunks, Head(pending))
    /\ pending' = Tail(pending)
    /\ UNCHANGED <<pc, invocation, hashseed, json_imported, erc1155_data,
                   text, stdout, nwrites, exit_status>>

\* json.dumps returns and its result is bound to erc1155_data, as in
\* erc1155_data = json.dumps(erc1155_data, indent=2).
DumpsReturnRebinds ==
    /\ pc = "encode"
    /\ pending = <<>>
    /\ text' = Join(chunks)
    /\ erc1155_data' = PyStr(Join(chunks))
    /\ pc' = "print"
    /\ UNCHANGED <<invocation, hashseed, json_imported, chunks, pending,
                   stdout, nwrites, exit_status>>

\* line 61, json.dumps returns ''.join(chunks)
DumpsReturn ==
    /\ pc = "encode"
    /\ pending = <<>>
    /\ text' = Join(chunks)
    /\ pc' = "print"
    /\ UNCHANGED <<invocation, hashseed, json_imported, erc1155_data, chunks,
                   pending, stdout, nwrites, exit_status>>

\* Two print calls of the text in a row.
PrintCallTwice ==
    /\ pc = "print"
    /\ stdout' = [stdout EXCEPT ![invocation] = @ \o text \o "\n" \o text \o "\n"]
    /\ nwrites' = nwrites + 2
    /\ pc' = "exit"
    /\ UNCHANGED <<invocation, hashseed, json_imported, erc1155_data, pending,
                   chunks, text, exit_status>>

\* line 61: print(...) writes the text and the line end
PrintCall ==
    /\ pc = "print"
    /\ stdout' = [stdout EXCEPT ![invocation] = @ \o text \o "\n"]
    /\ nwrites' = nwrites + 1
    /\ pc' = "exit"
    /\ UNCHANGED <<invocation, hashseed, json_imported, erc1155_data, pending,
                   chunks, text, exit_status>>

\* end of the file: the interpreter exits with status 0
Exit ==
    /\ pc = "exit"
    /\ exit_status' = Exited(0)
    /\ pc' = "done"
    /\ UNCHANGED <<invocation, hashseed, json_imported, erc1155_data, pending,
                   chunks, text, stdout, nwrites>>

\* The script is run again: a fresh process with a fresh hash seed; what the
\* earlier runs wrote stays on record.
Reinvoke ==
    /\ pc = "done"
    /\ invocation < MaxInvocations
    /\ \E h \in 0..MaxHashSeed : hashseed' = Append(hashseed, h)
    /\ invocation' = invocation + 1
    /\ pc' = "import"
    /\ json_imported' = FALSE
    /\ erc1155_data' = Unbound
    /\ pending' = <<>>
    /\ chunks' = <<>>
    /\ text' = NoText
    /\ stdout' = Append(stdout, "")
    /\ nwrites' = 0
    /\ exit_status' = Running

\* The steps of one process.
Step ==
    \/ ImportJson
    \/ Assign
    \/ DumpsCall
    \/ IterencodeStep
    \/ DumpsReturn
    \/ PrintCall
    \/ Exit

Next == Step \/ Reinvoke

Spec == Init /\ [][Next]_vars

\* A started process runs to its end: the script is sequential and
\* nothing in it blocks.
FairSpec == Spec /\ WF_vars(Step)

\* ------------------------------------------------------------------------
\* Properties

\* The program points at which erc1155_data is bound.
AfterAssign == {"dumps", "encode", "print", "exit", "done"}

\* The current process has made its print call.
Emitted == pc \in {"exit", "done"}

\* What the current process has written.
Out == stdout[invocation]

\* dct[key]
Lookup(dct, key) ==
    LET k == Min({j \in 1..Len(dct.items) : dct.items[j][1] = key})
    IN dct.items[k][2]

\* list(dct.keys())
Keys(dct) == [k \in 1..Len(dct.items) |-> dct.items[k][1]]

\* C1: every run makes exactly one print call, makes it before it exits,
\* and then exits with status 0: no run ends without a write, none writes
\* twice, and every started run ends.
C1_SingleWriteThenExit ==
    /\ [](nwrites <= 1)
    /\ [](nwrites = 0 => exit_status = Running /\ Out = "")
    /\ [](pc = "done" => nwrites = 1 /\ exit_status = Exited(0) /\ Out # "")
    /\ (pc = "import") ~> (pc = "done")

C1_Witness ==
    pc = "done" /\ nwrites = 1 /\ exit_status = Exited(0) /\ Out = text \o "\n"

\* C2: from its construction to the end of the process erc1155_data holds
\* the literal, every field of it; before that the name is unbound.
C2_RecordNeverMutated ==
    IF pc \in AfterAssign
    THEN erc1155_data = erc1155_data_literal
    ELSE erc1155_data = Unbound

C2_Witness ==
    pc = "done" /\ nwrites = 1 /\ erc1155_data = erc1155_data_literal

\* C3: the text a run has written parses back to the literal, with the
\* nested objects, the "UNKNOWN" strings of canonical_trades and the two
\* sample_transfers in their order.
C3_RoundTrip ==
    Emitted =>
        LET back == loads(Out)
        IN /\ back # ParseError
           /\ back = erc1155_data_literal
           /\ Lookup(Lookup(back, "canonical_trades"), "count") = PyStr("UNKNOWN")
           /\ Lookup(Lookup(back, "canonical_trades"), "total_usd_value")
                = PyStr("UNKNOWN")
           /\ Len(Lookup(back, "sample_transfers").items) = 2
           /\ Lookup(Lookup(back, "sample_transfers").items[1], "direction")
                = PyStr("OUTBOUND")
           /\ Lookup(Lookup(back, "sample_transfers").items[2], "direction")
                = PyStr("INBOUND")

C3_Witness == pc = "done" /\ Out # "" /\ loads(Out) = erc1155_data

\* Run k has made its print call.
HasEmitted(k) == k < invocation \/ (k = invocation /\ Emitted)

\* C4: any two runs of the script write the same text, character for
\* character, whatever their hash seeds.
C4_SameOutputEveryRun ==
    \A i, j \in 1..Len(stdout) :
        HasEmitted(i) /\ HasEmitted(j) => stdout[i] = stdout[j]

C4_Witness ==
    /\ invocation = 2
    /\ pc = "done"
    /\ hashseed[1] # hashseed[2]
    /\ stdout[1] # ""
    /\ stdout[1] = stdout[2]

\* C5: in the bound record to_eoa + from_eoa = total (180 + 69 = 249).
C5_DirectionsSumToTotal ==
    pc \in AfterAssign =>
        LET et == Lookup(erc1155_data, "erc1155_transfers")
            db == Lookup(et, "direction_breakdown")
        IN /\ Lookup(db, "to_eoa").n + Lookup(db, "from_eoa").n
                = Lookup(et, "total").n
           /\ Lookup(db, "to_eoa").n = 180
           /\ Lookup(db, "from_eoa").n = 69
           /\ Lookup(et, "total").n = 249

C5_Witness ==
    /\ pc = "print"
    /\ Lookup(Lookup(Lookup(erc1155_data, "erc1155_transfers"),
                     "direction_breakdown"), "to_eoa").n = 180

\* sum(dct.values()) over the items k, k+1, ...
RECURSIVE SumValuesFrom(_, _)
SumValuesFrom(dct, k) ==
    IF k > Len(dct.items) THEN 0
    ELSE dct.items[k][2].n + SumValuesFrom(dct, k + 1)

\* C6: in the bound record the monthly_breakdown values sum to 249, which
\* is total.
C6_MonthsSumToTotal ==
    pc \in AfterAssign =>
        LET et == Lookup(erc1155_data, "erc1155_transfers")
            mb == Lookup(et, "monthly_breakdown")
        IN /\ SumValuesFrom(mb, 1) = 249
           /\ SumValuesFrom(mb, 1) = Lookup(et, "total").n

C6_Witness ==
    /\ pc = "encode"
    /\ Len(Lookup(Lookup(erc1155_data, "erc1155_transfers"),
                  "monthly_breakdown").items) = 15

\* C7: every entry of sample_transfers has a direction, and it is "INBOUND"
\* or "OUTBOUND".
C7_DirectionsRestricted ==
    pc \in AfterAssign =>
        LET st == Lookup(erc1155_data, "sample_transfers").items
        IN \A k \in 1..Len(st) :
            /\ \E j \in 1..Len(st[k].items) : st[k].items[j][1] = "direction"
            /\ Lookup(st[k], "direction") \in {PyStr("INBOUND"), PyStr("OUTBOUND")}

C7_Witness ==
    /\ pc = "dumps"
    /\ Len(Lookup(erc1155_data, "sample_transfers").items) = 2

\* The keys of a value at every nesting level, in order, values left out.
RECURSIVE KeyShape(_)
KeyShape(v) ==
    CASE v.t = "dict" ->
           [k \in 1..Len(v.items) |-> <<v.items[k][1], KeyShape(v.items[k][2])>>]
      [] v.t = "list" -> [k \in 1..Len(v.items) |-> KeyShape(v.items[k])]
      [] OTHER -> <<>>

\* C8: in the emitted text the keys come in the order of the literal at
\* every nesting level: the six top-level keys as declared, and the months
\* from 2024-08 to 2025-10 as declared.
C8_DeclarationOrder ==
    Emitted =>
        LET back == loads(Out)
        IN /\ back # ParseError
           /\ Keys(back) = <<"wallet_cluster", "erc1155_transfers",
                             "canonical_trades", "polymarket_ui_volume",
                             "pnl_v2_canonical_volume", "sample_transfers">>
           /\ Keys(Lookup(Lookup(back, "erc1155_transfers"), "monthly_breakdown"))
                = <<"2024-08", "2024-09", "2024-10", "2024-11", "2024-12",
                    "2025-01", "2025-02", "2025-03", "2025-04", "2025-05",
                    "2025-06", "2025-07", "2025-08", "2025-09", "2025-10">>
           /\ KeyShape(back) = KeyShape(erc1155_data)

C8_Witness ==
    /\ Emitted
    /\ Len(Keys(loads(Out))) = 6
    /\ hashseed[invocation] # 0

Contains(s, sub) ==
    \E i \in 1..(Len(s) - Len(sub) + 1) : SubSeq(s, i, i + Len(sub) - 1) = sub

\* The text of s before its first line end.
FirstLine(s) ==
    LET ends == {j \in 1..Len(s) : Char(s, j) = "\n"}
    IN IF ends = {} THEN s ELSE SubSeq(s, 1, Min(ends) - 1)

\* C9: the first line of the output is { and the output contains
\* "total": 249.
C9_FirstLineAndTotal ==
    Emitted => FirstLine(Out) = "{" /\ Contains(Out, "\"total\": 249")

C9_Witness == pc = "exit" /\ Len(Out) > 1 /\ Char(Out, 1) = "{"

\* Reading "YYYY-MM..." and "YYYY-MM-DD HH:MM:SS" strings.
AllDigits(s, lo, hi) == \A p \in lo..hi : IsDigit(Char(s, p))

IsMonthKey(s) ==
    /\ Len(s) = 7
    /\ AllDigits(s, 1, 4) /\ Char(s, 5) = "-" /\ AllDigits(s, 6, 7)
    /\ Atoi(s, 6, 7) \in 1..12

IsTimestamp(s) ==
    /\ Len(s) = 19
    /\ IsMonthKey(SubSeq(s, 1, 7))
    /\ Char(s, 8) = "-" /\ AllDigits(s, 9, 10) /\ Char(s, 11) = " "
    /\ AllDigits(s, 12, 13) /\ Char(s, 14) = ":" /\ AllDigits(s, 15, 16)
    /\ Char(s, 17) = ":" /\ AllDigits(s, 18, 19)

\* Months since year 0.
MonthIndex(s) == Atoi(s, 1, 4) * 12 + Atoi(s, 6, 7) - 1

DateKey(s) == MonthIndex(s) * 100 + Atoi(s, 9, 10)
TimeKey(s) == Atoi(s, 12, 13) * 10000 + Atoi(s, 15, 16) * 100 + Atoi(s, 18, 19)

NotAfter(a, b) ==
    \/ DateKey(a) < DateKey(b)
    \/ DateKey(a) = DateKey(b) /\ TimeKey(a) <= TimeKey(b)

\* C10: the monthly_breakdown keys are the consecutive months from the
\* month of time_range.earliest to the month of time_range.latest, none
\* missing and none outside, and every sample_transfers timestamp lies
\* between earliest and latest.
C10_MonthsAndSamplesInRange ==
    pc \in AfterAssign =>
        LET et == Lookup(erc1155_data, "erc1155_transfers")
            mb == Lookup(et, "monthly_breakdown").items
            earliest == Lookup(Lookup(et, "time_range"), "earliest").s
            latest == Lookup(Lookup(et, "time_range"), "latest").s
            st == Lookup(erc1155_data, "sample_transfers").items
        IN /\ IsTimestamp(earliest) /\ IsTimestamp(latest)
           /\ MonthIndex(earliest) = 2024 * 12 + 7
           /\ MonthIndex(latest) = 2025 * 12 + 9
           /\ Len(mb) = MonthIndex(latest) - MonthIndex(earliest) + 1
           /\ \A k \in 1..Len(mb) :
                /\ IsMonthKey(mb[k][1])
                /\ MonthIndex(mb[k][1]) = MonthIndex(earliest) + k - 1
           /\ \A k \in 1..Len(st) :
                LET ts == Lookup(st[k], "timestamp").s
                IN /\ IsTimestamp(ts)
                   /\ NotAfter(earliest, ts)
                   /\ NotAfter(ts, latest)

C10_Witness ==
    /\ pc = "done"
    /\ Lookup(Lookup(Lookup(erc1155_data, "erc1155_transfers"), "time_range"),
              "earliest") = PyStr("2024-08-21 17:57:45")

====
